---- MODULE Spec2Model ----
(***************************************************************************)
(* flexcal: business calendars.  A Calendar is a working-weekday mask plus *)
(* an ordered list of holiday rules (DateSpec).  Rules are resolved to raw *)
(* dates, folded in order through the observance adjustment, and the       *)
(* resulting set of observed off-days answers is_offday and date_range.    *)
(*                                                                         *)
(* Dates are chrono NaiveDate values, modelled as the number of days since *)
(* 1970-01-01 in the proleptic Gregorian calendar; the conversions to and  *)
(* from (year, month, day) are computed, not assumed.                      *)
(***************************************************************************)
EXTENDS Integers, Sequences, FiniteSets, TLC

VARIABLES iter, res, adj, cq

vars == <<iter, res, adj, cq>>

(***************************************************************************)
(* chrono::NaiveDate                                                       *)
(***************************************************************************)

\* Weekday::num_days_from_monday: Mon = 0 .. Sun = 6
Mon == "Mon"
Tue == "Tue"
Wed == "Wed"
Thu == "Thu"
Fri == "Fri"
Sat == "Sat"
Sun == "Sun"

WeekdayOrder == <<Mon, Tue, Wed, Thu, Fri, Sat, Sun>>

Weekday == {WeekdayOrder[i] : i \in 1..7}

IsLeap(y) == (y % 4 = 0) /\ ((y % 100 # 0) \/ (y % 400 = 0))

DaysInMonth(y, m) ==
    CASE m \in {1, 3, 5, 7, 8, 10, 12} -> 31
      [] m \in {4, 6, 9, 11} -> 30
      [] m = 2 -> IF IsLeap(y) THEN 29 ELSE 28
      [] OTHER -> 0

\* NaiveDate::from_ymd panics unless (y, m, d) is a date of the calendar
ValidYmd(y, m, d) == m \in 1..12 /\ d >= 1 /\ d <= DaysInMonth(y, m)

\* the day number of a valid (y, m, d)
from_ymd(y, m, d) ==
    LET yy  == IF m <= 2 THEN y - 1 ELSE y
        era == yy \div 400
        yoe == yy - era * 400
        mp  == IF m > 2 THEN m - 3 ELSE m + 9
        doy == (153 * mp + 2) \div 5 + d - 1
        doe == yoe * 365 + yoe \div 4 - yoe \div 100 + doy
    IN  era * 146097 + doe - 719468

\* Datelike: the (year, month, day) of a day number
civil(date) ==
    LET z   == date + 719468
        era == z \div 146097
        doe == z - era * 146097
        yoe == (doe - doe \div 1460 + doe \div 36524 - doe \div 146096) \div 365
        doy == doe - (365 * yoe + yoe \div 4 - yoe \div 100)
        mp  == (5 * doy + 2) \div 153
        d   == doy - (153 * mp + 2) \div 5 + 1
        m   == IF mp < 10 THEN mp + 3 ELSE mp - 9
    IN  [year |-> IF m <= 2 THEN yoe + era * 400 + 1 ELSE yoe + era * 400,
         month |-> m, day |-> d]

year(date) == civil(date).year

\* 1970-01-01 was a Thursday
weekday(date) == WeekdayOrder[((date + 3) % 7) + 1]

\* NaiveDate::succ and pred (they panic at MAX_DATE and MIN_DATE, some 95
\* million days from the dates used here)
succ(date) == date + 1

pred(date) == date - 1

\* chrono::naive::MIN_DATE and MAX_DATE
default_earliest_date == from_ymd(-262144, 1, 1)

default_latest_date == from_ymd(262143, 12, 31)

\* a component that takes no part in the specification at hand
Idle == [pc |-> "idle"]

(***************************************************************************)
(* date_range.rs: DateRange and DateRangeIterator                          *)
(***************************************************************************)

\* DateRange::new
DateRange_new(start, end) == [start |-> start, end |-> end]

\* DateRange::contains
contains(dr, date) == dr.start <= date /\ date < dr.end

\* DateRange::is_empty
is_empty(dr) == dr.start = dr.end

\* IntoIterator for DateRange and for &DateRange
into_iter(dr) == [cur |-> dr.start, end |-> dr.end]

\* DateRangeIterator::next: the item (if any) and the iterator afterwards
iter_next(it) ==
    IF it.cur = it.end
    THEN [some |-> FALSE, item |-> it.cur, it |-> it]
    ELSE [some |-> TRUE, item |-> it.cur, it |-> [it EXCEPT !.cur = succ(it.cur)]]

\* Iterator::collect over a DateRangeIterator (loops while next is Some)
RECURSIVE collect(_)
collect(it) ==
    LET n == iter_next(it)
    IN  IF n.some THEN <<n.item>> \o collect(n.it) ELSE <<>>

\* ---- the iteration, one call of next at a time -------------------------

\* the ranges iterated: start and end within RangeSpan days of 2021-01-30
RangeSpan == 4

RangeDates == {from_ymd(2021, 1, 30) + k : k \in 0..RangeSpan}

\* calls of next made on one iterator before the run is cut off; more than
\* any range with start <= end needs
MaxYield == RangeSpan + 2

InitRange ==
    /\ \E start \in RangeDates, end \in RangeDates :
          iter = [pc |-> "new", dr |-> DateRange_new(start, end),
                  it |-> into_iter(DateRange_new(start, end)),
                  yielded |-> <<>>, first |-> <<>>, passes |-> 0]
    /\ res = Idle
    /\ adj = Idle
    /\ cq = Idle

\* for x in &dr: a fresh iterator over the same interval
IntoIter ==
    /\ iter.pc \in {"new", "exhausted"}
    /\ iter.passes < 2
    /\ iter' = [iter EXCEPT !.pc = "iterating", !.it = into_iter(iter.dr),
                            !.first = iter.yielded, !.yielded = <<>>,
                            !.passes = @ + 1]
    /\ UNCHANGED <<res, adj, cq>>

\* one call of DateRangeIterator::next
IterNext ==
    /\ iter.pc = "iterating"
    /\ Len(iter.yielded) < MaxYield
    /\ LET n == iter_next(iter.it)
       IN  iter' = [iter EXCEPT !.it = n.it,
                                !.yielded = IF n.some THEN Append(@, n.item) ELSE @,
                                !.pc = IF n.some THEN "iterating" ELSE "exhausted"]
    /\ UNCHANGED <<res, adj, cq>>

NextRange == IntoIter \/ IterNext

SpecRange == InitRange /\ [][NextRange]_vars

\* the dates of [start, end) in ascending order
RECURSIVE Ascending(_, _)
Ascending(lo, hi) == IF lo >= hi THEN <<>> ELSE <<lo>> \o Ascending(lo + 1, hi)

\* C8: iterating DateRange::new(start, end) yields exactly the dates d with
\* contains(d) (start <= d < end), each once and in ascending order: every
\* date yielded so far is contained, an exhausted iterator has yielded all
\* of them, nothing at all is yielded when start > end, and a second pass
\* by reference repeats the first.
C8_YieldsExactlyContained ==
    iter.pc \in {"iterating", "exhausted"} =>
        /\ \A i \in 1..Len(iter.yielded) : contains(iter.dr, iter.yielded[i])
        /\ \A i \in 1..Len(iter.yielded) : iter.yielded[i] = iter.dr.start + i - 1
        /\ iter.dr.start > iter.dr.end => iter.yielded = <<>>
        /\ iter.pc = "exhausted" =>
              /\ iter.yielded = Ascending(iter.dr.start, iter.dr.end)
              /\ iter.passes = 2 => iter.yielded = iter.first

\* the part of C8 that the code does meet: intervals with start <= end
RangeWellFormedOk ==
    iter.pc \in {"iterating", "exhausted"} /\ iter.dr.start <= iter.dr.end =>
        /\ \A i \in 1..Len(iter.yielded) : contains(iter.dr, iter.yielded[i])
        /\ iter.pc = "exhausted" =>
              /\ iter.yielded = Ascending(iter.dr.start, iter.dr.end)
              /\ iter.yielded = collect(into_iter(iter.dr))
              /\ Len(iter.yielded) = iter.dr.end - iter.dr.start
              /\ iter.passes = 2 => iter.yielded = iter.first

(***************************************************************************)
(* calendar.rs: AdjustmentPolicy and DateSpec                              *)
(***************************************************************************)

Prev == "Prev"
Next == "Next"
Closest == "Closest"
NoAdjustment == "NoAdjustment"

AdjustmentPolicy == {Prev, Next, Closest, NoAdjustment}

\* the three variants of DateSpec, as records of one shape (the fields a
\* variant lacks hold defaults); month is Month::number_from_month
SpecificDate(date) ==
    [type |-> "SpecificDate", date |-> date, month |-> 1, day |-> 1,
     dow |-> Mon, offset |-> 0, observed |-> NoAdjustment,
     valid_since |-> default_earliest_date, valid_until |-> default_latest_date]

DayOfMonth(month, day, observed, valid_since, valid_until) ==
    [type |-> "DayOfMonth", date |-> 0, month |-> month, day |-> day,
     dow |-> Mon, offset |-> 0, observed |-> observed,
     valid_since |-> valid_since, valid_until |-> valid_until]

NthDayOccurance(month, dow, offset, observed, valid_since, valid_until) ==
    [type |-> "NthDayOccurance", date |-> 0, month |-> month, day |-> 1,
     dow |-> dow, offset |-> offset, observed |-> observed,
     valid_since |-> valid_since, valid_until |-> valid_until]

\* Option<(Vec<NaiveDate>, AdjustmentPolicy)>; panicked: a from_ymd call of
\* the resolution was given a (year, month, day) that is no date
None == [some |-> FALSE, dates |-> <<>>, policy |-> NoAdjustment, panicked |-> FALSE]

Some(dates, policy, panicked) ==
    [some |-> TRUE, dates |-> dates, policy |-> policy, panicked |-> panicked]

\* the first and last year of the overlap of validity and window
overlap_s(rule, start) ==
    year(IF rule.valid_since < start THEN start ELSE rule.valid_since)

overlap_e(rule, end) ==
    year(IF rule.valid_until < end THEN rule.valid_until ELSE end)

\* a loop that stops one year early: for year in s..e
RECURSIVE for_years_exclusive(_, _)
for_years_exclusive(y, e) ==
    IF y >= e THEN <<>> ELSE <<y>> \o for_years_exclusive(y + 1, e)

\* the years visited by: for year in s..(e + 1)
RECURSIVE for_years(_, _)
for_years(y, e) == IF y >= e + 1 THEN <<>> ELSE <<y>> \o for_years(y + 1, e)

\* resolve, DayOfMonth arm
resolve_DayOfMonth(rule, start, end) ==
    IF rule.valid_since > end \/ rule.valid_until < start
    THEN None
    ELSE LET s == overlap_s(rule, start)
             e == overlap_e(rule, end)
             years == for_years(s, e)
         IN  Some([i \in 1..Len(years) |-> from_ymd(years[i], rule.month, rule.day)],
                  rule.observed,
                  \E y \in s..e : ~ValidYmd(y, rule.month, rule.day))

\* while date.weekday() != dow { date = date.pred() }
RECURSIVE pred_to_dow(_, _)
pred_to_dow(date, dow) ==
    IF weekday(date) # dow THEN pred_to_dow(pred(date), dow) ELSE date

\* while date.weekday() != dow { date = date.succ() }
RECURSIVE succ_to_dow(_, _)
succ_to_dow(date, dow) ==
    IF weekday(date) # dow THEN succ_to_dow(succ(date), dow) ELSE date

\* while off < 0 { date = date - 7 days; off += 1 }
RECURSIVE weeks_back(_, _)
weeks_back(date, off) == IF off < 0 THEN weeks_back(date - 7, off + 1) ELSE date

\* while off > 0 { date = date + 7 days; off -= 1 }
RECURSIVE weeks_forward(_, _)
weeks_forward(date, off) == IF off > 0 THEN weeks_forward(date + 7, off - 1) ELSE date

\* without the December case: the first day of month 13 is asked for
month_end_ymd_no_december(y, month_num) ==
    [year |-> y, month |-> month_num + 1, day |-> 1, pred |-> TRUE]

\* the (year, month, day) handed to from_ymd for the start of the backward
\* scan, and whether pred() is applied to it
month_end_ymd(y, month_num) ==
    IF month_num = 12
    THEN [year |-> y, month |-> 12, day |-> 31, pred |-> FALSE]
    ELSE [year |-> y, month |-> month_num + 1, day |-> 1, pred |-> TRUE]

\* the date a NthDayOccurance rule emits for one year
nth_occurrence(rule, y) ==
    IF rule.offset < 0
    THEN LET c == month_end_ymd(y, rule.month)
             last == IF c.pred THEN pred(from_ymd(c.year, c.month, c.day))
                               ELSE from_ymd(c.year, c.month, c.day)
         IN  weeks_back(pred_to_dow(last, rule.dow), rule.offset + 1)
    ELSE weeks_forward(succ_to_dow(from_ymd(y, rule.month, 1), rule.dow),
                       rule.offset - 1)

\* whether the from_ymd call for that year is given a date of the calendar
nth_ymd_valid(rule, y) ==
    IF rule.offset < 0
    THEN LET c == month_end_ymd(y, rule.month) IN ValidYmd(c.year, c.month, c.day)
    ELSE ValidYmd(y, rule.month, 1)

\* resolve, NthDayOccurance arm
resolve_NthDayOccurance(rule, start, end) ==
    IF rule.valid_since > end \/ rule.valid_until < start
    THEN None
    ELSE LET s == overlap_s(rule, start)
             e == overlap_e(rule, end)
             years == for_years(s, e)
         IN  Some([i \in 1..Len(years) |->
                     IF nth_ymd_valid(rule, years[i])
                     THEN nth_occurrence(rule, years[i])
                     ELSE default_earliest_date],
                  rule.observed,
                  \E y \in s..e : ~nth_ymd_valid(rule, y))

\* resolve, SpecificDate arm
resolve_SpecificDate(rule, start, end) ==
    IF rule.date < start \/ end < rule.date
    THEN None
    ELSE Some(<<rule.date>>, NoAdjustment, FALSE)

\* DateSpec::resolve
resolve(rule, start, end) ==
    CASE rule.type = "SpecificDate" -> resolve_SpecificDate(rule, start, end)
      [] rule.type = "DayOfMonth" -> resolve_DayOfMonth(rule, start, end)
      [] rule.type = "NthDayOccurance" -> resolve_NthDayOccurance(rule, start, end)

\* ---- resolve applied to one rule and one window -------------------------

\* validity bounds: the serde defaults and dates of 2020 and 2021, in any
\* order (nothing checks valid_since <= valid_until)
ValiditySamples ==
    {default_earliest_date, from_ymd(2020, 1, 1), from_ymd(2021, 3, 1),
     from_ymd(2021, 6, 1), from_ymd(2021, 12, 31), default_latest_date}

\* window bounds, in any order: get_special_offdays passes its arguments on
WindowSamples ==
    {from_ymd(2019, 1, 1), from_ymd(2020, 7, 1), from_ymd(2021, 4, 15),
     from_ymd(2022, 12, 31), from_ymd(2024, 12, 31)}

\* (month, day) of the DayOfMonth rules: days that exist in every year
MonthDaySamples == {<<12, 25>>, <<2, 28>>, <<1, 1>>}

\* the offsets a month always has an occurrence for
Offsets == {-4, -3, -2, -1, 1, 2, 3, 4}

ResolveRules ==
    {SpecificDate(d) : d \in {from_ymd(2021, 1, 1), from_ymd(2021, 12, 27)}}
    \cup {DayOfMonth(md[1], md[2], p, vs, vu) :
            md \in MonthDaySamples, p \in {Next, NoAdjustment},
            vs \in ValiditySamples, vu \in ValiditySamples}
    \cup {NthDayOccurance(m, d, o, Closest, default_earliest_date, default_latest_date) :
            m \in 1..12, d \in Weekday, o \in Offsets}

InitResolve ==
    /\ \E rule \in ResolveRules, start \in WindowSamples, end \in WindowSamples :
          res = [pc |-> "call", rule |-> rule, start |-> start, end |-> end,
                 result |-> None]
    /\ iter = Idle
    /\ adj = Idle
    /\ cq = Idle

\* rule.resolve(start, end); an invalid from_ymd ends the call in a panic
Resolve ==
    /\ res.pc = "call"
    /\ LET r == resolve(res.rule, res.start, res.end)
       IN  res' = [res EXCEPT !.pc = IF r.panicked THEN "panicked" ELSE "resolved",
                              !.result = IF r.panicked THEN None ELSE r]
    /\ UNCHANGED <<iter, adj, cq>>

NextResolve == Resolve

SpecResolve == InitResolve /\ [][NextResolve]_vars

Max(a, b) == IF a >= b THEN a ELSE b

Min(a, b) == IF a <= b THEN a ELSE b

\* the inclusive intervals [valid_since, valid_until] and [start, end] share a date
Intersects(rule, start, end) ==
    Max(rule.valid_since, start) <= Min(rule.valid_until, end)

\* one date (y, month, day) for each year y of s..e, in ascending order
OnePerYear(dates, rule, s, e) ==
    /\ Len(dates) = IF e >= s THEN e - s + 1 ELSE 0
    /\ \A i \in 1..Len(dates) :
          civil(dates[i]) = [year |-> s + i - 1, month |-> rule.month, day |-> rule.day]

ResolvedDayOfMonth == res.pc = "resolved" /\ res.rule.type = "DayOfMonth"

\* C5 as stated: resolve of a DayOfMonth rule returns None when
\* [valid_since, valid_until] does not intersect [start, end], and otherwise
\* exactly one raw date (month, day) for each year from
\* year(max(valid_since, start)) through year(min(valid_until, end)),
\* ascending.  None is read leniently here: an empty list of raw dates
\* counts as None, so only a raw date emitted for disjoint intervals
\* violates it.
C5_NoneIffDisjoint ==
    ResolvedDayOfMonth =>
        IF Intersects(res.rule, res.start, res.end)
        THEN /\ res.result.some
             /\ OnePerYear(res.result.dates, res.rule,
                           year(Max(res.rule.valid_since, res.start)),
                           year(Min(res.rule.valid_until, res.end)))
        ELSE res.result.dates = <<>>

\* C5 amended: None exactly when valid_since > end or valid_until < start,
\* which is non-intersection whenever valid_since <= valid_until and
\* start <= end; otherwise one raw date (month, day) for each year from
\* year(max(valid_since, start)) through year(min(valid_until, end)),
\* ascending (none when that range of years is empty), with the policy of
\* the rule; validity 2020-01-01..2021-12-31 against 2019-01-01..2022-12-31
\* gives the 2020 and 2021 occurrences.
C5_NoneIffEndpointsApart ==
    /\ res.pc # "panicked" \/ res.rule.type # "DayOfMonth"
    /\ ResolvedDayOfMonth =>
        /\ res.result.some <=>
              ~(res.rule.valid_since > res.end \/ res.rule.valid_until < res.start)
        /\ res.rule.valid_since <= res.rule.valid_until /\ res.start <= res.end =>
              (res.result.some <=> Intersects(res.rule, res.start, res.end))
        /\ res.result.some =>
              /\ OnePerYear(res.result.dates, res.rule,
                            year(Max(res.rule.valid_since, res.start)),
                            year(Min(res.rule.valid_until, res.end)))
              /\ res.result.policy = res.rule.observed
        /\ ( /\ res.rule.valid_since = from_ymd(2020, 1, 1)
             /\ res.rule.valid_until = from_ymd(2021, 12, 31)
             /\ res.start = from_ymd(2019, 1, 1)
             /\ res.end = from_ymd(2022, 12, 31) ) =>
              res.result.dates = <<from_ymd(2020, res.rule.month, res.rule.day),
                                   from_ymd(2021, res.rule.month, res.rule.day)>>

\* C5 witness: a window wider than the validity, clipped to 2020 and 2021
C5_Witness ==
    /\ ResolvedDayOfMonth
    /\ res.rule.valid_since = from_ymd(2020, 1, 1)
    /\ res.rule.valid_until = from_ymd(2021, 12, 31)
    /\ res.start = from_ymd(2019, 1, 1)
    /\ res.end = from_ymd(2022, 12, 31)
    /\ res.result.some
    /\ Len(res.result.dates) = 2

ResolvedNth == res.pc = "resolved" /\ res.rule.type = "NthDayOccurance"

\* C6: for every year, month, weekday and offset N of 1..4 or -4..-1, the
\* date resolve emits for a NthDayOccurance rule lies in that month of that
\* year, falls on the weekday, and is the N-th such weekday from the first
\* day of the month (N > 0) or the |N|-th back from its last day (N < 0);
\* no from_ymd call is given an invalid date; January, Monday, -1 in 2024
\* gives 2024-01-29.
C6_NthWeekdayOfMonth ==
    /\ res.pc # "panicked" \/ res.rule.type # "NthDayOccurance"
    /\ ResolvedNth /\ res.result.some =>
        LET s == year(Max(res.rule.valid_since, res.start))
            n == res.rule.offset
        IN  \A i \in 1..Len(res.result.dates) :
               LET d == res.result.dates[i]
                   c == civil(d)
               IN  /\ c.year = s + i - 1
                   /\ c.month = res.rule.month
                   /\ weekday(d) = res.rule.dow
                   /\ n > 0 => (c.day - 1) \div 7 = n - 1
                   /\ n < 0 => (DaysInMonth(c.year, c.month) - c.day) \div 7 = -n - 1
                   /\ (c.year = 2024 /\ c.month = 1 /\ res.rule.dow = Mon /\ n = -1)
                         => d = from_ymd(2024, 1, 29)

\* C6 witness: the last Monday of January 2024 has been resolved
C6_Witness ==
    /\ ResolvedNth
    /\ res.rule.month = 1 /\ res.rule.dow = Mon /\ res.rule.offset = -1
    /\ \E i \in 1..Len(res.result.dates) : res.result.dates[i] = from_ymd(2024, 1, 29)

\* C6 witness of the December case: a last weekday of December
C6_WitnessDecember ==
    /\ ResolvedNth
    /\ res.rule.month = 12 /\ res.rule.offset = -1
    /\ Len(res.result.dates) > 0

(***************************************************************************)
(* calendar.rs: Calendar::adjust_special_offday                            *)
(***************************************************************************)

\* Option<NaiveDate>
NoDate == [some |-> FALSE, date |-> 0]

SomeDate(date) == [some |-> TRUE, date |-> date]

\* the negation of the weekday test dropped
is_blocked_unnegated(dow, offdays, x) == (weekday(x) \in dow) \/ x \in offdays

\* the already observed off-days ignored
is_blocked_weekday_only(dow, offdays, x) == ~(weekday(x) \in dow)

\* the closure is_blocked of adjust_special_offday
is_blocked(dow, offdays, x) == ~(weekday(x) \in dow) \/ x \in offdays

\* Next: while is_blocked(actual) { actual = actual.succ() }
RECURSIVE scan_next(_, _, _)
scan_next(dow, offdays, actual) ==
    IF is_blocked(dow, offdays, actual)
    THEN scan_next(dow, offdays, succ(actual))
    ELSE actual

\* Prev: while is_blocked(actual) { actual = actual.pred() }
RECURSIVE scan_prev(_, _, _)
scan_prev(dow, offdays, actual) ==
    IF is_blocked(dow, offdays, actual)
    THEN scan_prev(dow, offdays, pred(actual))
    ELSE actual

\* ties resolved to the earlier date
closest_of_ties_to_prev(date, prev, next) ==
    IF (date - prev) <= (next - date) THEN prev ELSE next

\* Closest: if (date - prev) < (next - date) { prev } else { next }
closest_of(date, prev, next) ==
    IF (date - prev) < (next - date) THEN prev ELSE next

\* adjust_special_offday as a whole (it does not return when dow is empty
\* and the policy scans)
adjust_special_offday(dow, date, policy, offdays) ==
    CASE policy = Next -> SomeDate(scan_next(dow, offdays, date))
      [] policy = Prev -> SomeDate(scan_prev(dow, offdays, date))
      [] policy = Closest ->
            SomeDate(closest_of(date, scan_prev(dow, offdays, date),
                                scan_next(dow, offdays, date)))
      [] policy = NoAdjustment ->
            IF is_blocked(dow, offdays, date) THEN NoDate ELSE SomeDate(date)

\* ---- one call of adjust_special_offday, one loop iteration at a time ----

\* the largest already-observed set handed to the call
MaxObserved == 2

\* days a scan is followed before the run is cut off: more than a scan
\* needs when at least one weekday is in the mask (each week holds a mask
\* day, and at most MaxObserved of those are taken), so only the scans of
\* an empty mask are cut
MaxScan == 7 * (MaxObserved + 1)

WorkWeek == {Mon, Tue, Wed, Thu, Fri}

AdjustMasks == {{}, WorkWeek, {Wed}, Weekday}

\* the raw dates: Fri 2021-12-24 .. Thu 2021-12-30
AdjustDates == {from_ymd(2021, 12, 24) + k : k \in 0..6}

\* the dates the already-observed set is drawn from
ObservedPool ==
    {from_ymd(2021, 12, 22), from_ymd(2021, 12, 24), from_ymd(2021, 12, 27),
     from_ymd(2021, 12, 28), from_ymd(2021, 12, 29)}

InitAdjust ==
    /\ \E dow \in AdjustMasks, date \in AdjustDates, policy \in AdjustmentPolicy,
          offdays \in {o \in SUBSET ObservedPool : Cardinality(o) <= MaxObserved} :
          adj = [pc |-> "call", dow |-> dow, date |-> date, policy |-> policy,
                 offdays |-> offdays, actual |-> date, prev |-> date,
                 next |-> date, result |-> NoDate]
    /\ iter = Idle
    /\ res = Idle
    /\ cq = Idle

\* match policy: the arm taken; Closest calls itself with Prev first
AdjustCall ==
    /\ adj.pc = "call"
    /\ adj' = [adj EXCEPT
                 !.pc = CASE adj.policy = Next -> "next"
                          [] adj.policy \in {Prev, Closest} -> "prev"
                          [] adj.policy = NoAdjustment -> "returned",
                 !.result = IF adj.policy = NoAdjustment
                                /\ ~is_blocked(adj.dow, adj.offdays, adj.actual)
                            THEN SomeDate(adj.actual) ELSE NoDate]
    /\ UNCHANGED <<iter, res, cq>>

\* Prev: one iteration of while is_blocked(actual)
StepPrev ==
    /\ adj.pc = "prev"
    /\ is_blocked(adj.dow, adj.offdays, adj.actual)
    /\ adj.date - adj.actual < MaxScan
    /\ adj' = [adj EXCEPT !.actual = pred(adj.actual)]
    /\ UNCHANGED <<iter, res, cq>>

\* Prev: the loop ends, Some(actual); under Closest the call with Next follows
ReturnPrev ==
    /\ adj.pc = "prev"
    /\ ~is_blocked(adj.dow, adj.offdays, adj.actual)
    /\ adj' = IF adj.policy = Closest
              THEN [adj EXCEPT !.prev = adj.actual, !.actual = adj.date, !.pc = "next"]
              ELSE [adj EXCEPT !.result = SomeDate(adj.actual), !.pc = "returned"]
    /\ UNCHANGED <<iter, res, cq>>

\* Next: one iteration of while is_blocked(actual)
StepNext ==
    /\ adj.pc = "next"
    /\ is_blocked(adj.dow, adj.offdays, adj.actual)
    /\ adj.actual - adj.date < MaxScan
    /\ adj' = [adj EXCEPT !.actual = succ(adj.actual)]
    /\ UNCHANGED <<iter, res, cq>>

\* Next: the loop ends, Some(actual); under Closest the comparison follows
ReturnNext ==
    /\ adj.pc = "next"
    /\ ~is_blocked(adj.dow, adj.offdays, adj.actual)
    /\ adj' = IF adj.policy = Closest
              THEN [adj EXCEPT !.next = adj.actual, !.pc = "choose"]
              ELSE [adj EXCEPT !.result = SomeDate(adj.actual), !.pc = "returned"]
    /\ UNCHANGED <<iter, res, cq>>

\* Closest: the nearer of prev and next
ChooseClosest ==
    /\ adj.pc = "choose"
    /\ adj' = [adj EXCEPT !.result = SomeDate(closest_of(adj.date, adj.prev, adj.next)),
                          !.pc = "returned"]
    /\ UNCHANGED <<iter, res, cq>>

NextAdjust ==
    \/ AdjustCall
    \/ StepPrev
    \/ ReturnPrev
    \/ StepNext
    \/ ReturnNext
    \/ ChooseClosest

SpecAdjust == InitAdjust /\ [][NextAdjust]_vars

\* a call that is running takes its next step
SpecAdjustFair == SpecAdjust /\ WF_vars(NextAdjust)

\* the loop-by-loop run returns what adjust_special_offday returns
AdjustAgrees ==
    adj.pc = "returned" =>
        adj.result = adjust_special_offday(adj.dow, adj.date, adj.policy, adj.offdays)

Policies == {Prev, Next, Closest}

\* d is eligible: on a weekday of the mask and not already observed
Eligible(d) == weekday(d) \in adj.dow /\ d \notin adj.offdays

\* the nearest eligible day at or before / at or after the raw date
NearestBefore ==
    LET S == {d \in (adj.date - MaxScan)..adj.date : Eligible(d)}
    IN  CHOOSE d \in S : \A e \in S : e <= d

NearestAfter ==
    LET S == {d \in adj.date..(adj.date + MaxScan) : Eligible(d)}
    IN  CHOOSE d \in S : \A e \in S : d <= e

\* C4: with at least one working weekday, Closest returns the Prev result or
\* the Next result for the same inputs (the nearest eligible day on either
\* side), at a distance from the raw date no larger than either, and the
\* Next (later) result when the two distances are equal.
C4_ClosestNearest ==
    adj.pc = "returned" /\ adj.policy = Closest /\ adj.dow # {} =>
        /\ adj.result.some
        /\ adj.result.date \in {NearestBefore, NearestAfter}
        /\ adj.prev = NearestBefore
        /\ adj.next = NearestAfter
        /\ adj.result.date >= adj.date =>
              adj.result.date - adj.date <= adj.date - NearestBefore
        /\ adj.result.date <= adj.date =>
              adj.date - adj.result.date <= NearestAfter - adj.date
        /\ adj.date - NearestBefore = NearestAfter - adj.date =>
              adj.result.date = NearestAfter

\* C4 witness: a tie at distance > 0, resolved to the later date
C4_Witness ==
    /\ adj.pc = "returned" /\ adj.policy = Closest /\ adj.dow # {}
    /\ adj.date - adj.prev = adj.next - adj.date
    /\ adj.next > adj.date
    /\ adj.result = SomeDate(adj.next)

\* C7: with an empty weekday mask, Next, Prev and Closest are guarded and
\* fail fast: a scan never gets further than a week (one look at every
\* weekday) from the raw date.
C7_EmptyMaskFailsFast ==
    adj.dow = {} /\ adj.policy \in Policies =>
        /\ adj.actual - adj.date <= 7
        /\ adj.date - adj.actual <= 7

\* C10: with at least one weekday in the mask and a finite already-observed
\* set, the scan of Next, of Prev and of Closest terminates and returns
\* Some date.
C10_ScanTerminates ==
    (adj.dow # {} /\ adj.policy \in Policies)
        => <>(adj.pc = "returned" /\ adj.result.some)

\* C10 witness: a scan that had to pass an observed day and a weekend
C10_Witness ==
    /\ adj.pc = "returned" /\ adj.policy = Next /\ adj.dow = WorkWeek
    /\ adj.result.some
    /\ adj.result.date - adj.date >= 3

(***************************************************************************)
(* calendar.rs: Calendar                                                   *)
(***************************************************************************)

\* the fields of Calendar that the queries read
Calendar(dow, exclude) == [dow |-> dow, exclude |-> exclude]

\* exclude.iter().map(|x| x.resolve(start, end)).filter(is_some).map(unwrap)
resolve_all(exclude, start, end) ==
    SelectSeq([i \in 1..Len(exclude) |-> resolve(exclude[i], start, end)],
              LAMBDA x : x.some)

\* the (date, policy) pairs in the order the two nested loops of
\* adjust_special_offdays visit them
RECURSIVE occurrences(_)
occurrences(offdays) ==
    IF offdays = <<>>
    THEN <<>>
    ELSE LET h == Head(offdays)
         IN  [j \in 1..Len(h.dates) |-> [date |-> h.dates[j], policy |-> h.policy]]
             \o occurrences(Tail(offdays))

\* the loop body: Some(offday) => observed.insert(offday), None => nothing;
\* kept records, for each insert, the occurrence it came from
commit(dow, acc, occ) ==
    LET r == adjust_special_offday(dow, occ.date, occ.policy, acc.observed)
    IN  IF r.some
        THEN [observed |-> acc.observed \cup {r.date},
              kept |-> Append(acc.kept, [raw |-> occ.date, policy |-> occ.policy,
                                         offday |-> r.date])]
        ELSE acc

RECURSIVE fold(_, _, _, _)
fold(dow, occs, k, acc) ==
    IF k > Len(occs) THEN acc ELSE fold(dow, occs, k + 1, commit(dow, acc, occs[k]))

\* let mut observed = HashSet::new()
NoneObserved == [observed |-> {}, kept |-> <<>>]

\* Calendar::adjust_special_offdays
adjust_special_offdays(dow, offdays) ==
    fold(dow, occurrences(offdays), 1, NoneObserved).observed

\* Calendar::get_special_offdays
get_special_offdays(cal, start, end) ==
    adjust_special_offdays(cal.dow, resolve_all(cal.exclude, start, end))

\* Calendar::is_offday
is_offday(cal, date) ==
    ~(weekday(date) \in cal.dow) \/ date \in get_special_offdays(cal, date, date)

\* the dates before `from` let through
working_days_unfiltered(cal, offdays, from, to) ==
    SelectSeq(collect(into_iter(DateRange_new(from - 14, succ(to)))),
              LAMBDA x : weekday(x) \in cal.dow /\ x \notin offdays)

\* the iteration of date_range over the widened range and its two filters
working_days(cal, offdays, from, to) ==
    SelectSeq(SelectSeq(collect(into_iter(DateRange_new(from - 14, succ(to)))),
                        LAMBDA x : weekday(x) \in cal.dow /\ x \notin offdays),
              LAMBDA x : x >= from)

\* Calendar::date_range
date_range(cal, from, to) ==
    working_days(cal, get_special_offdays(cal, from, to), from, to)

\* ---- one date_range query, then is_offday queries on the same calendar ---

\* the longest rule list
MaxRules == 2

AnyTime(month, day, observed) ==
    DayOfMonth(month, day, observed, default_earliest_date, default_latest_date)

CalendarRules ==
    {AnyTime(12, 25, Next), AnyTime(12, 26, Next), AnyTime(1, 1, Next),
     AnyTime(1, 1, Prev), AnyTime(12, 31, Next), AnyTime(12, 25, Closest),
     DayOfMonth(12, 26, Next, from_ymd(2022, 1, 1), default_latest_date),
     SpecificDate(from_ymd(2021, 12, 27)),
     NthDayOccurance(12, Mon, -1, NoAdjustment,
                     default_earliest_date, default_latest_date)}

RECURSIVE RuleLists(_)
RuleLists(n) ==
    IF n = 0
    THEN {<<>>}
    ELSE RuleLists(n - 1)
         \cup {Append(l, r) : l \in {x \in RuleLists(n - 1) : Len(x) = n - 1},
                              r \in CalendarRules}

\* from <= to: within 2021, across 2021/2022, and the first days of 2023
Queries ==
    {<<from_ymd(2021, 12, 20), from_ymd(2021, 12, 31)>>,
     <<from_ymd(2021, 12, 27), from_ymd(2022, 1, 5)>>,
     <<from_ymd(2023, 1, 1), from_ymd(2023, 1, 6)>>}

\* tests::check_crossing_years
CrossingYears ==
    Calendar(WorkWeek, <<AnyTime(12, 25, Next), AnyTime(12, 26, Next), AnyTime(1, 1, Next)>>)

\* no rule of the list scans: with an empty mask a scan does not return
NoScan(exclude) == \A i \in 1..Len(exclude) : exclude[i].observed = NoAdjustment

CalendarInputs ==
    {<<Calendar(dow, exclude), q[1], q[2]>> :
        dow \in {WorkWeek, Weekday}, exclude \in RuleLists(MaxRules), q \in Queries}
    \cup {<<Calendar({}, exclude), q[1], q[2]>> :
             exclude \in {l \in RuleLists(MaxRules) : NoScan(l)}, q \in Queries}
    \cup {<<CrossingYears, from_ymd(2021, 12, 15), from_ymd(2022, 1, 15)>>}

InitCalendar ==
    /\ \E in \in CalendarInputs :
          cq = [pc |-> "call", cal |-> in[1], from |-> in[2], to |-> in[3],
                offdays |-> <<>>, k |-> 1, acc |-> NoneObserved,
                result |-> <<>>, asked |-> in[2], answer |-> FALSE]
    /\ iter = Idle
    /\ res = Idle
    /\ adj = Idle

\* date_range -> get_special_offdays: every rule resolved against [from, to]
GetSpecialOffdays ==
    /\ cq.pc = "call"
    /\ cq' = [cq EXCEPT !.offdays = resolve_all(cq.cal.exclude, cq.from, cq.to),
                        !.pc = "fold"]
    /\ UNCHANGED <<iter, res, adj>>

\* adjust_special_offdays: the next occurrence adjusted and committed
AdjustOccurrence ==
    /\ cq.pc = "fold"
    /\ cq.k <= Len(occurrences(cq.offdays))
    /\ cq' = [cq EXCEPT !.acc = commit(cq.cal.dow, cq.acc, occurrences(cq.offdays)[cq.k]),
                        !.k = @ + 1]
    /\ UNCHANGED <<iter, res, adj>>

\* date_range: the fold is over, the working days are collected
CollectWorkingDays ==
    /\ cq.pc = "fold"
    /\ cq.k > Len(occurrences(cq.offdays))
    /\ cq' = [cq EXCEPT !.result = working_days(cq.cal, cq.acc.observed, cq.from, cq.to),
                        !.pc = "done"]
    /\ UNCHANGED <<iter, res, adj>>

\* is_offday(date) on the same calendar, for a date in or next to [from, to]
IsOffday ==
    /\ cq.pc = "done"
    /\ \E date \in (cq.from - 1)..(cq.to + 1) :
          cq' = [cq EXCEPT !.asked = date, !.answer = is_offday(cq.cal, date),
                           !.pc = "asked"]
    /\ UNCHANGED <<iter, res, adj>>

NextCalendar ==
    \/ GetSpecialOffdays
    \/ AdjustOccurrence
    \/ CollectWorkingDays
    \/ IsOffday

SpecCalendar == InitCalendar /\ [][NextCalendar]_vars

Range(seq) == {seq[i] : i \in 1..Len(seq)}

Returned == cq.pc \in {"done", "asked"}

\* the step-by-step query returns what date_range returns, and the
\* repository's test holds: 20 working days from 2021-12-15 to 2022-01-15
CalendarAgrees ==
    Returned =>
        /\ cq.result = date_range(cq.cal, cq.from, cq.to)
        /\ cq.acc.observed = get_special_offdays(cq.cal, cq.from, cq.to)
        /\ cq.cal = CrossingYears => Len(cq.result) = 20

\* C1: date_range(from, to) with from <= to returns dates in strictly
\* ascending order (so without duplicates), each within [from, to], and
\* is_offday on the same calendar, which resolves the rules against [d, d],
\* is false for every returned date d.
C1_WorkingDaysSound ==
    Returned =>
        /\ \A i \in 1..Len(cq.result) : \A j \in 1..Len(cq.result) :
              i < j => cq.result[i] < cq.result[j]
        /\ \A i \in 1..Len(cq.result) :
              /\ cq.from <= cq.result[i]
              /\ cq.result[i] <= cq.to
              /\ ~is_offday(cq.cal, cq.result[i])
        /\ cq.pc = "asked" /\ cq.asked \in Range(cq.result) => ~cq.answer

\* C1 witness: a query across the turn of the year with an adjusted holiday
\* left out, and is_offday asked about a returned date
C1_Witness ==
    /\ cq.pc = "asked"
    /\ year(cq.from) < year(cq.to)
    /\ cq.asked \in Range(cq.result)
    /\ ~cq.answer
    /\ \E i \in 1..Len(cq.acc.kept) :
          /\ cq.acc.kept[i].raw # cq.acc.kept[i].offday
          /\ cq.from <= cq.acc.kept[i].offday
          /\ cq.acc.kept[i].offday <= cq.to

\* the occurrences the fold has visited so far
Visited == SubSeq(occurrences(cq.offdays), 1, cq.k - 1)

\* C2: while the occurrences are folded in rule-list order, every occurrence
\* with policy Prev, Next or Closest is kept, every kept date is on a weekday
\* of the mask and was not in the observed set built before it, so no two
\* kept occurrences share a date and the observed set is exactly the kept
\* dates; 25 Dec and 26 Dec 2021 (Sat, Sun), both Next, resolved within
\* 2021, are observed on Mon 27 and Tue 28.
C2_FoldKeepsDistinctWorkdays ==
    cq.pc # "call" =>
        LET kept == cq.acc.kept
        IN  /\ \A i \in 1..Len(kept) :
                  /\ weekday(kept[i].offday) \in cq.cal.dow
                  /\ \A j \in 1..(i - 1) : kept[j].offday # kept[i].offday
            /\ cq.acc.observed = {kept[i].offday : i \in 1..Len(kept)}
            /\ Cardinality(cq.acc.observed) = Len(kept)
            /\ Len(SelectSeq(kept, LAMBDA x : x.policy \in Policies))
                  = Len(SelectSeq(Visited, LAMBDA x : x.policy \in Policies))
            /\ ( /\ cq.cal = Calendar(WorkWeek, <<AnyTime(12, 25, Next), AnyTime(12, 26, Next)>>)
                 /\ year(cq.from) = 2021
                 /\ year(cq.to) = 2021
                 /\ cq.k > 2 ) =>
                  /\ kept[1].offday = from_ymd(2021, 12, 27)
                  /\ kept[2].offday = from_ymd(2021, 12, 28)

\* C2 witness: Christmas and Boxing Day 2021 folded, the second pushed past
\* the first
C2_Witness ==
    /\ cq.pc = "fold"
    /\ cq.cal = Calendar(WorkWeek, <<AnyTime(12, 25, Next), AnyTime(12, 26, Next)>>)
    /\ year(cq.from) = 2021
    /\ year(cq.to) = 2021
    /\ cq.k > 2
    /\ cq.acc.observed = {from_ymd(2021, 12, 27), from_ymd(2021, 12, 28)}

\* the occurrences kept when the rules are resolved against the widened
\* range [from - 14, to]
KeptFromLookback ==
    fold(cq.cal.dow,
         occurrences(resolve_all(cq.cal.exclude, cq.from - 14, cq.to)),
         1, NoneObserved).kept

\* C3: a holiday whose raw date falls before from, within the 14-day
\* lookback (also in the calendar year before from), and whose observed date
\* after Next or Closest adjustment lies in [from, to], is not among the
\* working days date_range(from, to) returns.
C3_LookbackExcluded ==
    Returned =>
        \A i \in 1..Len(KeptFromLookback) :
           LET h == KeptFromLookback[i]
           IN  ( /\ h.policy \in {Next, Closest}
                 /\ cq.from - 14 <= h.raw
                 /\ h.raw < cq.from
                 /\ cq.from <= h.offday
                 /\ h.offday <= cq.to )
               => h.offday \notin Range(cq.result)

\* the case of C3 that the code does meet: the raw date before from but in
\* the calendar year of from
C3_SameYearWitness ==
    /\ Returned
    /\ \E i \in 1..Len(cq.acc.kept) :
          /\ cq.acc.kept[i].raw < cq.from
          /\ year(cq.acc.kept[i].raw) = year(cq.from)
          /\ cq.from <= cq.acc.kept[i].offday
          /\ cq.acc.kept[i].offday \notin Range(cq.result)

\* C9: the two queries agree in both directions: for from <= d <= to, d is
\* among the dates date_range(from, to) returns if and only if is_offday(d)
\* is false.
C9_QueriesAgree ==
    cq.pc = "asked" /\ cq.from <= cq.asked /\ cq.asked <= cq.to =>
        (cq.asked \in Range(cq.result) <=> ~cq.answer)

====
